---- MODULE Spec2Model ----
(***************************************************************************)
(* A model of the pull-request feedback scripts:                           *)
(*   .github/scripts/post_pr_summar.py   (summary upsert, "summary")       *)
(*   .github/scripts/comment_on_push.py  (push comment, "push")            *)
(*   .github/workflows/comment_on_push.py (push comment without retries)   *)
(*                                                                         *)
(* Seven specifications share the variables of the module:                  *)
(*   SpecCall      one gh_api call, attempt by attempt                     *)
(*   SpecPaginate  one traversal of paginate over a collection             *)
(*   SpecLive      one traversal of paginate over a collection that        *)
(*                 changes between the page requests                       *)
(*   SpecPush      one run of the push-comment script                      *)
(*   Spec          two runs of the summary script against one forge        *)
(*   SpecFormat    one call of format_summary on fetched data              *)
(*   SpecRuns      a run of either flow: the behaviours of SpecPush and    *)
(*                 those of Spec                                           *)
(* Each specification pins the variables of the others to their idle       *)
(* values.                                                                 *)
(***************************************************************************)
EXTENDS Integers, Sequences, FiniteSets, TLC

VARIABLES
    \* ---- one gh_api call (SpecCall)
    client,       \* which script's gh_api: "summary" or "push"
    max_retries,  \* the max_retries argument
    attempt,      \* the loop variable: number of the next attempt
    callState,    \* "idle", "running", "returned" or "raised"
    seen,         \* the responses of the attempts made so far, in order
    sleeps,       \* the backoff delays slept so far (tenths of a second)
    result,       \* what the call returned or raised
    \* ---- one traversal of paginate (SpecPaginate)
    coll,         \* the collection behind the endpoint, in listing order
    page,         \* the loop variable: number of the next page
    pgState,      \* "idle", "running", "done" or "raised"
    yielded,      \* the items yielded so far, in order
    fetched,      \* the page requests made so far: [page, len], len -1 on failure
    changes,      \* how often the collection changed during the traversal
    \* ---- one run of the push-comment script (SpecPush)
    flavour,      \* "scripts" (.github/scripts) or "workflows" (.github/workflows)
    hint,         \* GITHUB_PR_NUMBER as text; <<>> when unset or empty
    before,       \* GITHUB_EVENT_BEFORE; <<>> when unset or empty
    nPRs,         \* the number of open pull requests of the repository
    shaSet,       \* the listing positions of the open PRs whose head is SHA
    brSet,        \* the listing positions of the open PRs whose head ref is BRANCH
    pushPc,       \* "idle", "start", "list", "build", "post", "skipped", "done", "failed"
    prs,          \* the local list prs
    pushPage,     \* the local page
    pr_number,    \* what the resolution returned (NoPR: None or not yet)
    pushBody,     \* the comment body built (<<>>: not yet)
    apiLog,       \* the gh_api calls of the run: [req, outcome, note]
    exitCode,     \* the exit status of the process (-1: still running)
    posted,       \* the comments the forge holds from the run: [pr, body]
    \* ---- runs of the summary script against one pull request (Spec)
    oldCount,     \* the number of old comments of the PR, none with the marker
    comments,     \* the comments of the PR after the old ones: [id, body]
    snapshot,     \* the version of the PR data (pr, commits, files) on the forge
    pc,           \* per run: "idle", "get_pr", "commits", "files", "comments",
                  \*          "mutate", "done", "failed"
    runPage,      \* per run: the local page of the paginate in progress
    got,          \* per run: the versions of pr, commits and files it fetched
    listed,       \* per run: the comments its listing has fetched so far
    existing,     \* per run: existing_id (NoId: None or not yet)
    mAttempt,     \* per run: the attempt number inside its mutating call
    op,           \* per run: the mutating call it chose: "none", "create", "update"
    nApplied,     \* per run: how many of its mutating requests the forge applied
    exitOf,       \* per run: the exit status (-1: not ended)
    lastCall,     \* per run: its latest gh_api call: [req, outcome, cls]
    lost,         \* how many applied mutating requests were answered with an error
    startMarkers, \* per run: the marker comments on the PR when it started (-1: not yet)
    overlap,      \* whether a run has started while another was in progress
    \* ---- one call of format_summary on fetched data (SpecFormat)
    fmtPr,        \* the pull request as fetched
    fmtCommits,   \* its commits as fetched, oldest first
    fmtFiles,     \* its files as fetched
    fmtPc,        \* "idle", "input" or "done"
    fmtOut        \* the lines format_summary returned (<<>>: not yet)

callVars == <<client, max_retries, attempt, callState, seen, sleeps, result>>

pageVars == <<coll, page, pgState, yielded, fetched, changes>>

pushVars == <<flavour, hint, before, nPRs, shaSet, brSet, pushPc, prs, pushPage,
              pr_number, pushBody, apiLog, exitCode, posted>>

sumVars == <<oldCount, comments, snapshot, pc, runPage, got, listed, existing,
             mAttempt, op, nApplied, exitOf, lastCall, lost, startMarkers, overlap>>

fmtVars == <<fmtPr, fmtCommits, fmtFiles, fmtPc, fmtOut>>

vars == <<callVars, pageVars, pushVars, sumVars, fmtVars>>

(***************************************************************************)
(* Bounds of the model.                                                    *)
(***************************************************************************)
\* the largest max_retries argument a call is started with
MaxAttempts ==
    3

\* the largest collection a traversal of paginate starts on
MaxItems ==
    301

\* the largest number of open pull requests a push run finds
MaxPRs ==
    101

\* the number of mutating requests the forge applies and yet answers with an
\* error or not at all
MaxLost ==
    1

\* the number of pushes that change the PR data and start a run
MaxPushes ==
    1

(***************************************************************************)
(* Program constants.                                                      *)
(***************************************************************************)
\* max_retries=3, the default every caller uses
DefaultMaxRetries ==
    3

\* per_page=100
PerPage ==
    100

(***************************************************************************)
(* The answers of the forge to one HTTP request, as urlopen reports them.  *)
(*   kind "http"      a response with status code `code` and JSON `val`    *)
(*   kind "urlerror"  urllib.error.URLError: the request could not be      *)
(*                    connected or sent (what the scripts log as a         *)
(*                    network error)                                       *)
(*   kind "resperror" an exception that is not a URLError, raised while    *)
(*                    the response is awaited, read or decoded             *)
(*                    (TimeoutError, RemoteDisconnected, JSONDecodeError)  *)
(***************************************************************************)
Http(code, val) ==
    [kind |-> "http", code |-> code, val |-> val]

UrlError ==
    [kind |-> "urlerror", code |-> 0, val |-> 0]

RespError ==
    [kind |-> "resperror", code |-> 0, val |-> 0]

\* the status codes the forge answers with in the model
ErrorCodes ==
    {304, 400, 404, 499, 500, 502, 599, 600}

Responses ==
    {Http(200, 1), Http(200, 2), Http(201, 1), Http(204, 0)}
        \cup {Http(c, 0) : c \in ErrorCodes}
        \cup {UrlError, RespError}

\* urlopen returns a response object for 2xx and raises HTTPError otherwise
IsSuccess(resp) ==
    resp.kind = "http" /\ 200 <= resp.code /\ resp.code < 300

Is4xx(resp) ==
    resp.kind = "http" /\ 400 <= resp.code /\ resp.code < 500

Is5xx(resp) ==
    resp.kind = "http" /\ 500 <= resp.code /\ resp.code < 600

\* what the claims call transient: a 5xx response or a network error
IsTransient(resp) ==
    Is5xx(resp) \/ resp.kind = "urlerror"

(***************************************************************************)
(* gh_api: the classification of an HTTPError.                             *)
(***************************************************************************)
\* a slip in the lower bound: a plain 500 is not retried
retry_summary_strict(code) ==
    500 < code /\ code < 600

\* post_pr_summar.py: retry = 500 <= e.code < 600
retry_summary(code) ==
    500 <= code /\ code < 600

\* a slip in the threshold: client errors are retried as well
is_retryable_push_4xx(code) ==
    code >= 400

\* comment_on_push.py: is_retryable = e.code >= 500
is_retryable_push(code) ==
    code >= 500

is_retryable(cl, code) ==
    IF cl = "summary" THEN retry_summary(code) ELSE is_retryable_push(code)

\* time.sleep(1.3 * attempt) and time.sleep(1.2 * attempt), in tenths
backoff(cl, att) ==
    IF cl = "summary" THEN 13 * att ELSE 12 * att

(***************************************************************************)
(* gh_api: one iteration of the loop `for attempt in range(1, max+1)`.     *)
(* The decision is "return", "raise" or "retry".                           *)
(***************************************************************************)
\* a loop that gives up on the first error of any kind
gh_api_decide_once(cl, att, max, resp) ==
    IF resp.kind = "http" /\ IsSuccess(resp) THEN "return" ELSE "raise"

gh_api_decide(cl, att, max, resp) ==
    IF resp.kind = "http"
    THEN IF IsSuccess(resp)
         THEN "return"
         ELSE IF ~is_retryable(cl, resp.code) \/ att = max
              THEN "raise"
              ELSE "retry"
    ELSE IF resp.kind = "urlerror"
         THEN IF att = max THEN "raise" ELSE "retry"
         ELSE "raise"

\* the value a successful attempt returns: None for 204, else the JSON body
gh_api_value(resp) ==
    IF resp.code = 204
    THEN [kind |-> "none", code |-> 204, val |-> 0]
    ELSE [kind |-> "value", code |-> resp.code, val |-> resp.val]

\* the exception a failed attempt re-raises: the attempt's own error
gh_api_error(resp) ==
    [kind |-> resp.kind, code |-> resp.code, val |-> 0]

Pending ==
    [kind |-> "pending", code |-> 0, val |-> 0]

\* how an answer ends an attempt: with a value, an HTTPError of a range,
\* a URLError, or another exception
ResponseClass(resp) ==
    IF resp.kind = "http"
    THEN IF IsSuccess(resp) THEN "ok"
         ELSE IF Is4xx(resp) THEN "4xx"
         ELSE IF Is5xx(resp) THEN "5xx"
         ELSE "http"
    ELSE IF resp.kind = "urlerror" THEN "net" ELSE "other"

\* the latest gh_api call of a run: the request, what the loop did on the
\* latest attempt ("return", "raise" or "retry") and, for a mutating
\* request, how that attempt ended ("none" for a read)
Call(req, outcome, cls) ==
    [req |-> req, outcome |-> outcome, cls |-> cls]

NoCall ==
    [req |-> "none", outcome |-> "none", cls |-> "none"]

(***************************************************************************)
(* SpecCall: one call of gh_api.                                           *)
(***************************************************************************)
CallIdle ==
    /\ client = "summary"
    /\ max_retries = 0
    /\ attempt = 0
    /\ callState = "idle"
    /\ seen = <<>>
    /\ sleeps = <<>>
    /\ result = Pending

PageIdle ==
    /\ coll = <<>>
    /\ page = 0
    /\ pgState = "idle"
    /\ yielded = <<>>
    /\ fetched = <<>>
    /\ changes = 0

PushIdle ==
    /\ flavour = "scripts"
    /\ hint = <<>>
    /\ before = <<>>
    /\ nPRs = 0
    /\ shaSet = {}
    /\ brSet = {}
    /\ pushPc = "idle"
    /\ prs = <<>>
    /\ pushPage = 0
    /\ pr_number = -1
    /\ pushBody = <<>>
    /\ apiLog = <<>>
    /\ exitCode = -1
    /\ posted = <<>>

Runs ==
    {1, 2}

SumIdle ==
    /\ oldCount = 0
    /\ comments = <<>>
    /\ snapshot = 0
    /\ pc = [r \in Runs |-> "off"]
    /\ runPage = [r \in Runs |-> 0]
    /\ got = [r \in Runs |-> [pr |-> 0, commits |-> 0, files |-> 0]]
    /\ listed = [r \in Runs |-> <<>>]
    /\ existing = [r \in Runs |-> 0]
    /\ mAttempt = [r \in Runs |-> 0]
    /\ op = [r \in Runs |-> "none"]
    /\ nApplied = [r \in Runs |-> 0]
    /\ exitOf = [r \in Runs |-> -1]
    /\ lastCall = [r \in Runs |-> NoCall]
    /\ lost = 0
    /\ startMarkers = [r \in Runs |-> -1]
    /\ overlap = FALSE

FmtIdle ==
    /\ fmtPr = [additions |-> 0, deletions |-> 0]
    /\ fmtCommits = <<>>
    /\ fmtFiles = <<>>
    /\ fmtPc = "idle"
    /\ fmtOut = <<>>

InitCall ==
    /\ PageIdle
    /\ PushIdle
    /\ SumIdle
    /\ FmtIdle
    /\ client \in {"summary", "push"}
    /\ max_retries \in 1..MaxAttempts
    /\ attempt = 1
    /\ callState = "running"
    /\ seen = <<>>
    /\ sleeps = <<>>
    /\ result = Pending

\* one attempt: the request, the answer `resp`, and what the handler does
gh_api_attempt(resp) ==
    /\ callState = "running"
    /\ attempt <= max_retries
    /\ seen' = Append(seen, resp)
    /\ LET d == gh_api_decide(client, attempt, max_retries, resp)
       IN  /\ callState' = CASE d = "return" -> "returned"
                             [] d = "raise" -> "raised"
                             [] OTHER -> "running"
           /\ result' = CASE d = "return" -> gh_api_value(resp)
                          [] d = "raise" -> gh_api_error(resp)
                          [] OTHER -> result
           /\ sleeps' = IF d = "retry"
                        THEN Append(sleeps, backoff(client, attempt))
                        ELSE sleeps
           /\ attempt' = IF d = "retry" THEN attempt + 1 ELSE attempt
    /\ UNCHANGED <<client, max_retries>>
    /\ UNCHANGED <<pageVars, pushVars, sumVars, fmtVars>>

NextCall ==
    \E resp \in Responses : gh_api_attempt(resp)

SpecCall ==
    InitCall /\ [][NextCall]_vars

(***************************************************************************)
(* Properties of one gh_api call (SpecCall).                               *)
(***************************************************************************)
\* every attempt made so far answered with a 5xx response or a network error
AllTransient ==
    \A k \in 1..Len(seen) : IsTransient(seen[k])

\* the status of the latest attempt that was answered with a status (0: none)
RECURSIVE LastObservedStatus(_)
LastObservedStatus(s) ==
    IF s = <<>>
    THEN 0
    ELSE IF s[Len(s)].kind = "http"
         THEN s[Len(s)].code
         ELSE LastObservedStatus(SubSeq(s, 1, Len(s) - 1))

\* a transient answer on attempt k < N is followed by attempt k+1
C3_RetryFollows ==
    \A k \in 1..Len(seen) :
        (IsTransient(seen[k]) /\ k < max_retries)
            => \/ k < Len(seen)
               \/ callState = "running" /\ attempt = k + 1

\* the call returns the value of the first successful response and makes no
\* attempt after it
C3_FirstSuccess ==
    /\ \A k \in 1..Len(seen) :
           IsSuccess(seen[k])
               => /\ k = Len(seen)
                  /\ callState = "returned"
                  /\ result = gh_api_value(seen[k])
    /\ callState = "returned" => (seen # <<>> /\ IsSuccess(seen[Len(seen)]))

\* N transient answers end the call in a failure, after exactly N attempts
C3_ExhaustAfterN ==
    /\ (AllTransient /\ Len(seen) = max_retries) => callState = "raised"
    /\ (AllTransient /\ callState = "raised") => Len(seen) = max_retries
    /\ Len(seen) <= max_retries

\* [500, 500, 200] succeeds after exactly 3 attempts and [500, 500, 500]
\* fails after exactly 3 attempts, with max attempts 3
C3_Examples ==
    (max_retries = 3 /\ Len(seen) >= 2 /\ seen[1] = Http(500, 0) /\ seen[2] = Http(500, 0))
        => /\ callState = "running" => (Len(seen) = 2 /\ attempt = 3)
           /\ (Len(seen) >= 3 /\ seen[3] = Http(200, 1))
                  => (callState = "returned" /\ Len(seen) = 3 /\ result.val = 1)
           /\ (Len(seen) >= 3 /\ seen[3] = Http(500, 0))
                  => (callState = "raised" /\ Len(seen) = 3 /\ result.code = 500)

\* C3 (amended): transient retry. A 5xx response or a network error on attempt
\* k < N is followed by attempt k+1; the call returns the value of the first
\* successful response and makes no further attempt; after N transient
\* answers the call raises after exactly N attempts, and what it raises is
\* the N-th attempt's own error: its status if that attempt was answered 5xx,
\* no status if it ended in a network error.
C3_TransientRetry ==
    /\ C3_RetryFollows
    /\ C3_FirstSuccess
    /\ C3_ExhaustAfterN
    /\ C3_Examples
    /\ (AllTransient /\ callState = "raised")
           => result = gh_api_error(seen[Len(seen)])

\* C3 as stated: the failure raised after N transient answers carries the last
\* observed status, whichever attempt observed it.
C3_Original ==
    /\ C3_RetryFollows
    /\ C3_FirstSuccess
    /\ C3_ExhaustAfterN
    /\ C3_Examples
    /\ (AllTransient /\ callState = "raised" /\ LastObservedStatus(seen) # 0)
           => result.code = LastObservedStatus(seen)

\* C3 witness: three attempts answered 500, network error, 502 exhausted the
\* retries and the call raised the 502
C3_Witness ==
    /\ callState = "raised"
    /\ max_retries = 3
    /\ seen = <<Http(500, 0), UrlError, Http(502, 0)>>
    /\ result.code = 502

\* C4: terminal errors are never retried. A 4xx response on any attempt makes
\* the call fail at once with that status: it is the last attempt made, and
\* no backoff delay follows it (the only delays are those between attempts).
C4_TerminalNotRetried ==
    /\ \A k \in 1..Len(seen) :
           Is4xx(seen[k])
               => /\ k = Len(seen)
                  /\ callState = "raised"
                  /\ result.kind = "http"
                  /\ result.code = seen[k].code
                  /\ Len(sleeps) = k - 1
    /\ (Len(seen) >= 1 /\ seen[1] = Http(404, 0))
           => (Len(seen) = 1 /\ callState = "raised" /\ sleeps = <<>>)

\* C4 witness: a 404 on the second attempt, after a 500, ended the call
C4_Witness ==
    /\ callState = "raised"
    /\ seen = <<Http(500, 0), Http(404, 0)>>
    /\ result.code = 404
    /\ Len(sleeps) = 1

(***************************************************************************)
(* gh_api as a whole: the loop run against a script, the answers the forge *)
(* gives to the successive attempts of one call.                           *)
(***************************************************************************)
RECURSIVE gh_api_run(_, _, _, _)
gh_api_run(cl, att, max, script) ==
    LET d == gh_api_decide(cl, att, max, script[att])
    IN  IF d = "retry"
        THEN gh_api_run(cl, att + 1, max, script)
        ELSE [outcome |-> d, resp |-> script[att], attempts |-> att]

gh_api(cl, script) ==
    gh_api_run(cl, 1, DefaultMaxRetries, script)

\* the scripts a read (GET) is answered with: a 200 at once or after
\* transient failures, a 4xx, exhausted retries, an error while reading
ReadScripts ==
    { <<Http(200, 1), Http(200, 1), Http(200, 1)>>,
      <<Http(500, 0), Http(200, 1), Http(200, 1)>>,
      <<UrlError, Http(502, 0), Http(200, 1)>>,
      <<Http(404, 0), Http(200, 1), Http(200, 1)>>,
      <<Http(500, 0), UrlError, Http(500, 0)>>,
      <<UrlError, UrlError, UrlError>>,
      <<Http(502, 0), RespError, Http(200, 1)>> }

(***************************************************************************)
(* paginate                                                                *)
(***************************************************************************)
Min(a, b) ==
    IF a <= b THEN a ELSE b

\* what the forge returns for ?per_page=100&page=p over the collection c
PageOf(c, p) ==
    SubSeq(c, (p - 1) * PerPage + 1, Min(p * PerPage, Len(c)))

\* the loop stops after every page that is not longer than a full one
paginate_stops_full(data) ==
    data = <<>> \/ Len(data) <= PerPage

\* `if len(data) < 100: break`, after `if not data: break`
paginate_stops(data) ==
    data = <<>> \/ Len(data) < PerPage

\* a paginator that skips the items it has yielded before
paginate_yield_dedup(out, data) ==
    out \o SelectSeq(data, LAMBDA x : \A i \in 1..Len(out) : out[i] # x)

\* `for item in data: yield item`
paginate_yield(out, data) ==
    out \o data

InitPaginate ==
    /\ CallIdle
    /\ PushIdle
    /\ SumIdle
    /\ FmtIdle
    /\ \E n \in 0..MaxItems : coll = [i \in 1..n |-> i]
    /\ page = 1
    /\ pgState = "running"
    /\ yielded = <<>>
    /\ fetched = <<>>
    /\ changes = 0

\* one iteration of `while True`: the page request, then the yields
paginate_step(script) ==
    /\ pgState = "running"
    /\ LET r == gh_api("summary", script)
           data == PageOf(coll, page)
       IN  IF r.outcome = "raise"
           THEN /\ pgState' = "raised"
                /\ fetched' = Append(fetched, [page |-> page, len |-> -1])
                /\ UNCHANGED <<yielded, page>>
           ELSE /\ fetched' = Append(fetched, [page |-> page, len |-> Len(data)])
                /\ yielded' = paginate_yield(yielded, data)
                /\ pgState' = IF paginate_stops(data) THEN "done" ELSE "running"
                /\ page' = IF paginate_stops(data) THEN page ELSE page + 1
    /\ UNCHANGED <<coll, changes>>
    /\ UNCHANGED <<callVars, pushVars, sumVars, fmtVars>>

NextPaginate ==
    \E script \in ReadScripts : paginate_step(script)

SpecPaginate ==
    InitPaginate /\ [][NextPaginate]_vars

(***************************************************************************)
(* Properties of paginate (SpecPaginate).                                  *)
(***************************************************************************)
\* the pages requested so far are 1, 2, 3, ... in this order
PagesInOrder ==
    \A i \in 1..Len(fetched) : fetched[i].page = i

\* every page before the last requested one was full
EarlierPagesFull ==
    \A i \in 1..Len(fetched) : i < Len(fetched) => fetched[i].len = PerPage

\* C5: pagination completeness. Over a collection that does not change, the
\* paginator requests pages 1, 2, 3, ... of size 100; it goes on after a full
\* page and stops after the first page that is empty or short; when it is
\* done it has yielded every item exactly once, in collection order. 250
\* items take exactly 3 page requests, and a non-zero multiple of 100 takes
\* one request more than it has full pages, the last returning an empty page.
C5_PaginationComplete ==
    /\ PagesInOrder
    /\ EarlierPagesFull
    /\ yielded = SubSeq(coll, 1, Len(yielded))
    /\ pgState = "running"
           => /\ page = Len(fetched) + 1
              /\ Len(yielded) = PerPage * Len(fetched)
    /\ pgState = "done"
           => /\ yielded = coll
              /\ fetched # <<>>
              /\ fetched[Len(fetched)].len < PerPage
              /\ fetched[Len(fetched)].len >= 0
              /\ Len(fetched) = (Len(coll) \div PerPage) + 1
              /\ Len(coll) = 250 => Len(fetched) = 3
              /\ (Len(coll) > 0 /\ Len(coll) % PerPage = 0)
                     => fetched[Len(fetched)].len = 0

\* C5 witness: 250 items were traversed in 3 page requests, the last of 50
C5_Witness ==
    /\ pgState = "done"
    /\ Len(coll) = 250
    /\ Len(yielded) = 250
    /\ Len(fetched) = 3
    /\ fetched[3].len = 50

(***************************************************************************)
(* The push-comment script: its inputs and the forge it talks to.          *)
(***************************************************************************)
\* None, where the code holds a PR number
NoPR ==
    -1

\* GITHUB_SHA, the head commit of another pull request, and a commit before
\* the push (8 characters stand for the 40 of a SHA)
ShaT ==
    <<"a", "1", "b", "2", "c", "3", "d", "4">>

ShaO ==
    <<"e", "5", "f", "6", "0", "7", "1", "8">>

ShaB ==
    <<"9", "9", "8", "8", "7", "7", "6", "6">>

\* BRANCH, GITHUB_REF without refs/heads/, and the head ref of other PRs
BranchT ==
    "feature"

BranchO ==
    "other"

Digits ==
    {"0", "1", "2", "3", "4", "5", "6", "7", "8", "9"}

DigitVal(ch) ==
    CASE ch = "0" -> 0 [] ch = "1" -> 1 [] ch = "2" -> 2 [] ch = "3" -> 3
      [] ch = "4" -> 4 [] ch = "5" -> 5 [] ch = "6" -> 6 [] ch = "7" -> 7
      [] ch = "8" -> 8 [] ch = "9" -> 9

\* int(text) does not raise ValueError (texts of digits and letters only)
IsIntText(text) ==
    text # <<>> /\ \A i \in 1..Len(text) : text[i] \in Digits

\* int(text), base 10
RECURSIVE ParseInt(_)
ParseInt(text) ==
    IF text = <<>>
    THEN 0
    ELSE 10 * ParseInt(SubSeq(text, 1, Len(text) - 1)) + DigitVal(text[Len(text)])

\* the values GITHUB_PR_NUMBER takes in the model
Hints ==
    {<<>>, <<"0">>, <<"1", "2">>, <<"4", "x">>}

\* the values GITHUB_EVENT_BEFORE takes in the model
Befores ==
    {<<>>, ShaT, ShaB}

\* the open pull requests in listing order (newest first)
OpenPRs ==
    [i \in 1..nPRs |->
        [number |-> 500 - i,
         sha |-> IF i \in shaSet THEN ShaT ELSE ShaO,
         ref |-> IF i \in brSet THEN BranchT ELSE BranchO]]

\* the listing positions a matching pull request is put at
Positions(n) ==
    {1, PerPage, n} \cap (1..n)

PRCounts ==
    {0, 2, PerPage, MaxPRs}

\* a line of a comment body: what kind of line it is, and the text, the
\* characters and the numbers formatted into it
Line(tag, a, b, n) ==
    [tag |-> tag, a |-> a, b |-> b, n |-> n]

\* SHA[:7] and sha[:7]
Sha7(sha) ==
    SubSeq(sha, 1, Min(7, Len(sha)))

\* f"New push detected on `{BRANCH}` at `{SHA[:7]}`."
BaseLine ==
    Line("base", BranchT, Sha7(ShaT), <<>>)

(***************************************************************************)
(* find_open_pr_for_branch_or_sha: the selection over the listed PRs.      *)
(***************************************************************************)
\* next((i for i, p in enumerate(l) if p.sha == SHA), 0), 1-based
first_by_sha(l) ==
    IF \E i \in 1..Len(l) : l[i].sha = ShaT
    THEN CHOOSE i \in 1..Len(l) :
             l[i].sha = ShaT /\ \A j \in 1..(i - 1) : l[j].sha # ShaT
    ELSE 0

first_by_ref(l) ==
    IF \E i \in 1..Len(l) : l[i].ref = BranchT
    THEN CHOOSE i \in 1..Len(l) :
             l[i].ref = BranchT /\ \A j \in 1..(i - 1) : l[j].ref # BranchT
    ELSE 0

\* the branch name is tried first
select_pr_ref_first(l) ==
    IF first_by_ref(l) # 0
    THEN l[first_by_ref(l)].number
    ELSE IF first_by_sha(l) # 0 THEN l[first_by_sha(l)].number ELSE NoPR

\* Prefer exact commit match; fall back to branch name
select_pr(l) ==
    IF first_by_sha(l) # 0
    THEN l[first_by_sha(l)].number
    ELSE IF first_by_ref(l) # 0 THEN l[first_by_ref(l)].number ELSE NoPR

\* only 0 counts as no pull request
falsy_pr_zero_only(n) ==
    n = 0

\* `if not pr_number`
falsy_pr(n) ==
    n = NoPR \/ n = 0

\* the retry loop of the script; the workflow's gh_api makes one attempt
push_gh_api(fl, script) ==
    gh_api_run("push", 1, IF fl = "scripts" THEN DefaultMaxRetries ELSE 1, script)

(***************************************************************************)
(* fetch_push_commit_messages and build_comment_body                       *)
(***************************************************************************)
Commit(sha, message) ==
    [sha |-> sha, message |-> message]

\* what the compare endpoint answers with when it answers 200
ComparePayloads ==
    { [shape |-> "dict", commits |-> <<>>],
      [shape |-> "dict", commits |-> <<Commit(ShaT, <<"fix parser", "details">>)>>],
      [shape |-> "dict", commits |-> <<Commit(ShaB, <<>>), Commit(ShaT, <<"add test">>)>>],
      [shape |-> "dict", commits |-> [i \in 1..12 |-> Commit(ShaT, <<"step">>)]],
      [shape |-> "nondict", commits |-> <<>>],
      [shape |-> "badentry", commits |-> <<Commit(ShaT, <<"x">>)>>] }

\* title = msg.splitlines()[0] if msg else "(no message)"
commit_title(message) ==
    IF message = <<>> THEN "(no message)" ELSE message[1]

\* whether the try block of fetch_push_commit_messages raises: the call
\* failed, or an entry of commits is not a mapping
fetch_try_raises(r, payload) ==
    r.outcome = "raise" \/ (r.outcome = "return" /\ payload.shape = "badentry")

\* a handler that catches the HTTP errors of the call only
fetch_catches_http_only(r, payload) ==
    r.outcome = "raise" /\ r.resp.kind = "http"

\* `except Exception as e:` catches whatever the try block raised
fetch_catches(r, payload) ==
    TRUE

\* the list of (sha7, title) fetch_push_commit_messages returns after a call
fetch_push_commit_messages(r, payload) ==
    IF fetch_try_raises(r, payload)
    THEN <<>>
    ELSE IF payload.shape # "dict"
         THEN <<>>
         ELSE [i \in 1..Len(payload.commits) |->
                  [sha7 |-> Sha7(payload.commits[i].sha),
                   title |-> commit_title(payload.commits[i].message)]]

\* build_comment_body, given the list fetch_push_commit_messages returned
build_comment_body(commits) ==
    IF commits = <<>>
    THEN <<BaseLine>>
    ELSE <<BaseLine, Line("blank", "", <<>>, <<>>), Line("Recent commits:", "", <<>>, <<>>)>>
         \o [i \in 1..Min(10, Len(commits)) |->
                Line("commit", commits[i].title, commits[i].sha7, <<>>)]
         \o (IF Len(commits) > 10
             THEN <<Line("more", "", <<>>, <<Len(commits) - 10>>)>>
             ELSE <<>>)

(***************************************************************************)
(* The summary script: format_summary.                                     *)
(***************************************************************************)
\* MARKER = "<!-- pr-summary-bot -->"
MARKER ==
    Line("<!-- pr-summary-bot -->", "", <<>>, <<>>)

Max(a, b) ==
    IF a >= b THEN a ELSE b

RECURSIVE Reverse(_)
Reverse(s) ==
    IF s = <<>> THEN <<>> ELSE Append(Reverse(Tail(s)), Head(s))

\* plural(n, word)
plural(n, word) ==
    IF n = 1 THEN word ELSE IF word = "file" THEN "files" ELSE "commits"

\* thresholds that take the boundary value into the larger class
size_label_inclusive(total_delta) ==
    IF total_delta >= 1000 THEN "huge"
    ELSE IF total_delta >= 500 THEN "large"
    ELSE IF total_delta >= 200 THEN "medium"
    ELSE "small"

\* the size label of additions + deletions
size_label(total_delta) ==
    IF total_delta > 1000 THEN "huge"
    ELSE IF total_delta > 500 THEN "large"
    ELSE IF total_delta > 200 THEN "medium"
    ELSE "small"

\* msg = message or "(no message)"; title_line = msg.splitlines()[0]
summary_title_line(message) ==
    IF message = <<>> THEN "(no message)" ELSE message[1]

\* the slice taken from the front: reversed(commits[:10])
recent_commits_first10(commits) ==
    LET first10 == SubSeq(commits, 1, Min(10, Len(commits)))
        rev == Reverse(first10)
    IN  [i \in 1..Len(rev) |->
            Line("commit", summary_title_line(rev[i].message), Sha7(rev[i].sha), <<>>)]

\* for c in reversed(commits[-10:])
recent_commits(commits) ==
    LET last10 == SubSeq(commits, Max(1, Len(commits) - 9), Len(commits))
        rev == Reverse(last10)
    IN  [i \in 1..Len(rev) |->
            Line("commit", summary_title_line(rev[i].message), Sha7(rev[i].sha), <<>>)]

\* changes = additions + deletions of a file
file_changes(f) ==
    f.additions + f.deletions

\* insert f behind the entries that have more changes, before its equals
RECURSIVE insert_desc_unstable(_, _)
insert_desc_unstable(sorted, f) ==
    IF sorted = <<>>
    THEN <<f>>
    ELSE IF file_changes(Head(sorted)) > file_changes(f)
         THEN <<Head(sorted)>> \o insert_desc_unstable(Tail(sorted), f)
         ELSE <<f>> \o sorted

\* insert f behind every entry that has at least as many changes
RECURSIVE insert_desc(_, _)
insert_desc(sorted, f) ==
    IF sorted = <<>>
    THEN <<f>>
    ELSE IF file_changes(Head(sorted)) >= file_changes(f)
         THEN <<Head(sorted)>> \o insert_desc(Tail(sorted), f)
         ELSE <<f>> \o sorted

\* file_summaries.sort(reverse=True, key=changes): descending and stable
RECURSIVE sort_desc(_)
sort_desc(files) ==
    IF files = <<>>
    THEN <<>>
    ELSE insert_desc(sort_desc(SubSeq(files, 1, Len(files) - 1)), files[Len(files)])

\* for ... in file_summaries[:10]
top_files(files) ==
    LET top == SubSeq(sort_desc(files), 1, Min(10, Len(files)))
    IN  [i \in 1..Len(top) |->
            Line("file", top[i].filename, <<top[i].status>>,
                 <<top[i].additions, top[i].deletions>>)]

\* str.split(): the maximal runs of characters that are not whitespace
IsSpace(ch) ==
    ch \in {" ", "\n", "\t"}

RECURSIVE split(_, _, _)
split(text, i, cur) ==
    IF i > Len(text)
    THEN IF cur = <<>> THEN <<>> ELSE <<cur>>
    ELSE IF IsSpace(text[i])
         THEN (IF cur = <<>> THEN <<>> ELSE <<cur>>) \o split(text, i + 1, <<>>)
         ELSE split(text, i + 1, Append(cur, text[i]))

\* a scan that takes the digits after "#" and ignores what follows them
is_issue_token_lenient(token) ==
    /\ Len(token) >= 2
    /\ token[1] = "#"
    /\ token[2] \in Digits

\* token.startswith("#") and token[1:].isdigit()
is_issue_token(token) ==
    /\ Len(token) >= 2
    /\ token[1] = "#"
    /\ \A i \in 2..Len(token) : token[i] \in Digits

\* linked: the set of the issue tokens of the body
linked_issues(body) ==
    LET tokens == split(body, 1, <<>>)
    IN  {tokens[i] : i \in {j \in 1..Len(tokens) : is_issue_token(tokens[j])}}

\* t < u for two issue tokens, as strings compare: character by character,
\* a proper prefix first
RECURSIVE str_less(_, _)
str_less(t, u) ==
    IF u = <<>> THEN FALSE
    ELSE IF t = <<>> THEN TRUE
    ELSE IF Head(t) = Head(u) THEN str_less(Tail(t), Tail(u))
    ELSE IF Head(t) = "#" THEN TRUE
    ELSE IF Head(u) = "#" THEN FALSE
    ELSE DigitVal(Head(t)) < DigitVal(Head(u))

\* sorted(linked)
RECURSIVE sorted_tokens(_)
sorted_tokens(S) ==
    IF S = {}
    THEN <<>>
    ELSE LET least == CHOOSE t \in S : \A u \in S \ {t} : str_less(t, u)
         IN  <<least>> \o sorted_tokens(S \ {least})

\* " ".join(tokens)
RECURSIVE join(_)
join(tokens) ==
    IF tokens = <<>> THEN <<>>
    ELSE IF Len(tokens) = 1 THEN tokens[1]
    ELSE tokens[1] \o <<" ">> \o join(Tail(tokens))

\* the text format_summary returns, line by line
format_summary(pr, commits, files) ==
    LET rc == recent_commits(commits)
        tf == top_files(files)
        linked == linked_issues(pr.body)
    IN  << MARKER,
           Line("### PR Summary", "", <<>>, <<>>),
           Line("**Title:**", pr.title, <<>>, <<>>),
           Line("**Author:**", pr.login, <<>>, <<>>),
           Line("**Branch:**", pr.head_ref, <<pr.base_ref>>, <<>>),
           Line("**Scope:**", size_label(pr.additions + pr.deletions),
                <<plural(pr.changed_files, "file"), plural(Len(commits), "commit")>>,
                <<pr.changed_files, Len(commits), pr.additions, pr.deletions>>) >>
        \o (IF rc # <<>>
            THEN <<Line("blank", "", <<>>, <<>>), Line("#### Recent commits", "", <<>>, <<>>)>> \o rc
            ELSE <<>>)
        \o (IF tf # <<>>
            THEN <<Line("blank", "", <<>>, <<>>), Line("#### Most-changed files", "", <<>>, <<>>)>> \o tf
            ELSE <<>>)
        \o (IF linked # {}
            THEN <<Line("blank", "", <<>>, <<>>), Line("#### Linked issues", "", <<>>, <<>>),
                   Line("linked", "- ", join(sorted_tokens(linked)), <<>>)>>
            ELSE <<>>)
        \o <<Line("blank", "", <<>>, <<>>), Line("footer", "", <<>>, <<>>)>>

\* `MARKER in body`
has_marker(body) ==
    \E i \in 1..Len(body) : body[i] = MARKER

(***************************************************************************)
(* SpecPush: one run of the push-comment script.                           *)
(***************************************************************************)
\* the answers to the attempts of a mutating call, each with whether the
\* forge applied the request: a 2xx request is applied, a 4xx one and one
\* that could not be sent are not, one answered 5xx or whose response was
\* lost may be either
Ans(resp, applied) ==
    [resp |-> resp, applied |-> applied]

WriteScripts ==
    { <<Ans(Http(201, 1), TRUE), Ans(Http(201, 1), TRUE), Ans(Http(201, 1), TRUE)>>,
      <<Ans(Http(500, 0), FALSE), Ans(Http(201, 1), TRUE), Ans(Http(201, 1), TRUE)>>,
      <<Ans(Http(502, 0), TRUE), Ans(Http(201, 1), TRUE), Ans(Http(201, 1), TRUE)>>,
      <<Ans(UrlError, FALSE), Ans(UrlError, FALSE), Ans(Http(201, 1), TRUE)>>,
      <<Ans(Http(404, 0), FALSE), Ans(Http(201, 1), TRUE), Ans(Http(201, 1), TRUE)>>,
      <<Ans(Http(500, 0), FALSE), Ans(Http(500, 0), FALSE), Ans(Http(500, 0), FALSE)>>,
      <<Ans(RespError, TRUE), Ans(Http(201, 1), TRUE), Ans(Http(201, 1), TRUE)>> }

NotFound ==
    <<Ans(Http(404, 0), FALSE), Ans(Http(404, 0), FALSE), Ans(Http(404, 0), FALSE)>>

RespsOf(ws) ==
    [i \in 1..Len(ws) |-> ws[i].resp]

\* how many of the attempts made were applied by the forge
RECURSIVE AppliedCount(_, _)
AppliedCount(ws, attempts) ==
    IF attempts = 0
    THEN 0
    ELSE AppliedCount(ws, attempts - 1) + (IF ws[attempts].applied THEN 1 ELSE 0)

LogEntry(req, r, note) ==
    [req |-> req, outcome |-> r.outcome, note |-> note]

InitPush ==
    /\ CallIdle
    /\ PageIdle
    /\ SumIdle
    /\ FmtIdle
    /\ flavour \in {"scripts", "workflows"}
    /\ hint \in Hints
    /\ before \in Befores
    /\ nPRs \in PRCounts
    /\ shaSet \in {x \in SUBSET Positions(nPRs) : Cardinality(x) <= 2}
    /\ brSet \in {x \in SUBSET Positions(nPRs) : Cardinality(x) <= 2}
    /\ pushPc = "start"
    /\ prs = <<>>
    /\ pushPage = 0
    /\ pr_number = NoPR
    /\ pushBody = <<>>
    /\ apiLog = <<>>
    /\ exitCode = -1
    /\ posted = <<>>

\* the hint is never used
fast_path_never(h) ==
    FALSE

\* `if PR_NUMBER_ENV:` and int(PR_NUMBER_ENV) does not raise
fast_path(h) ==
    h # <<>> /\ IsIntText(h)

\* where main goes once the resolution returned n
after_resolution(fl, n) ==
    IF fl = "scripts"
    THEN IF falsy_pr(n) THEN "skipped" ELSE "build"
    ELSE IF n = NoPR THEN "skipped" ELSE "post"

\* main up to its first request: the fast path on GITHUB_PR_NUMBER
push_start ==
    /\ pushPc = "start"
    /\ IF fast_path(hint)
       THEN /\ pr_number' = ParseInt(hint)
            /\ pushPc' = after_resolution(flavour, ParseInt(hint))
            /\ exitCode' = IF after_resolution(flavour, ParseInt(hint)) = "skipped"
                           THEN 0 ELSE exitCode
            /\ UNCHANGED pushPage
       ELSE IF hint # <<>> /\ flavour = "workflows"
            THEN \* int(pr_number_env) raises ValueError
                 /\ pushPc' = "failed"
                 /\ exitCode' = 1
                 /\ UNCHANGED <<pr_number, pushPage>>
            ELSE \* no hint, or `except ValueError: pass`
                 /\ pushPc' = "list"
                 /\ pushPage' = 1
                 /\ UNCHANGED <<pr_number, exitCode>>
    /\ UNCHANGED <<flavour, hint, before, nPRs, shaSet, brSet, prs, pushBody,
                   apiLog, posted>>
    /\ UNCHANGED <<callVars, pageVars, sumVars, fmtVars>>

\* one iteration of the listing loop, and after the last page the selection
push_list_page(script) ==
    /\ pushPc = "list"
    /\ LET r == push_gh_api(flavour, script)
           res == PageOf(OpenPRs, pushPage)
           all == prs \o res
       IN  /\ apiLog' = Append(apiLog, LogEntry("list", r, ""))
           /\ IF r.outcome = "raise"
              THEN /\ pushPc' = "failed"
                   /\ exitCode' = 1
                   /\ UNCHANGED <<prs, pushPage, pr_number>>
              ELSE /\ prs' = all
                   /\ IF paginate_stops(res)
                      THEN /\ pr_number' = select_pr(all)
                           /\ pushPc' = after_resolution(flavour, select_pr(all))
                           /\ exitCode' = IF falsy_pr(select_pr(all)) THEN 0 ELSE exitCode
                           /\ UNCHANGED pushPage
                      ELSE /\ pushPage' = pushPage + 1
                           /\ UNCHANGED <<pushPc, pr_number, exitCode>>
    /\ UNCHANGED <<flavour, hint, before, nPRs, shaSet, brSet, pushBody, posted>>
    /\ UNCHANGED <<callVars, pageVars, sumVars, fmtVars>>

\* build_comment_body when `not before or before == after`: no request
push_build_plain ==
    /\ pushPc = "build"
    /\ (before = <<>> \/ before = ShaT)
    /\ pushBody' = build_comment_body(<<>>)
    /\ pushPc' = "post"
    /\ UNCHANGED <<flavour, hint, before, nPRs, shaSet, brSet, prs, pushPage,
                   pr_number, apiLog, exitCode, posted>>
    /\ UNCHANGED <<callVars, pageVars, sumVars, fmtVars>>

\* build_comment_body with the compare request
push_build_compare(script, payload) ==
    /\ pushPc = "build"
    /\ ~(before = <<>> \/ before = ShaT)
    /\ LET r == push_gh_api(flavour, script)
           note == IF r.outcome = "return" THEN payload.shape ELSE ""
       IN  /\ apiLog' = Append(apiLog, LogEntry("compare", r, note))
           /\ IF fetch_try_raises(r, payload) /\ ~fetch_catches(r, payload)
              THEN /\ pushPc' = "failed"
                   /\ exitCode' = 1
                   /\ UNCHANGED pushBody
              ELSE /\ pushBody' = build_comment_body(fetch_push_commit_messages(r, payload))
                   /\ pushPc' = "post"
                   /\ UNCHANGED exitCode
    /\ UNCHANGED <<flavour, hint, before, nPRs, shaSet, brSet, prs, pushPage,
                   pr_number, posted>>
    /\ UNCHANGED <<callVars, pageVars, sumVars, fmtVars>>

\* the body main posts: the workflow builds the base line itself
post_body ==
    IF flavour = "workflows" THEN <<BaseLine>> ELSE pushBody

\* gh_api(.../issues/{pr_number}/comments, method="POST", ...) and the end
push_post(ws) ==
    /\ pushPc = "post"
    /\ (pr_number > 0 \/ ws = NotFound)
    /\ LET r == push_gh_api(flavour, RespsOf(ws))
           k == AppliedCount(ws, r.attempts)
       IN  /\ apiLog' = Append(apiLog, LogEntry("post", r, ""))
           /\ posted' = posted \o [i \in 1..k |-> [pr |-> pr_number, body |-> post_body]]
           /\ pushPc' = IF r.outcome = "return" THEN "done" ELSE "failed"
           /\ exitCode' = IF r.outcome = "return" THEN 0 ELSE 1
    /\ UNCHANGED <<flavour, hint, before, nPRs, shaSet, brSet, prs, pushPage,
                   pr_number, pushBody>>
    /\ UNCHANGED <<callVars, pageVars, sumVars, fmtVars>>

NextPush ==
    \/ push_start
    \/ \E script \in ReadScripts : push_list_page(script)
    \/ push_build_plain
    \/ \E script \in ReadScripts, payload \in ComparePayloads :
           push_build_compare(script, payload)
    \/ \E ws \in WriteScripts \cup {NotFound} : push_post(ws)

SpecPush ==
    InitPush /\ [][NextPush]_vars

(***************************************************************************)
(* Properties of the push-comment run (SpecPush).                          *)
(***************************************************************************)
MinOf(S) ==
    CHOOSE x \in S : \A y \in S : x <= y

\* the requests of kind req the run has made
Requests(req) ==
    {i \in 1..Len(apiLog) : apiLog[i].req = req}

\* the resolution went through the listing and every page request returned
SearchCompleted ==
    /\ pushPc \notin {"start", "list"}
    /\ Requests("list") # {}
    /\ \A i \in Requests("list") : apiLog[i].outcome = "return"

\* the PR number the precedence rule names: the first SHA match in listing
\* order, else the first branch match, else none
ExpectedNumber ==
    IF shaSet # {}
    THEN 500 - MinOf(shaSet)
    ELSE IF brSet # {} THEN 500 - MinOf(brSet) ELSE NoPR

\* C6: PR resolution precedence. With no hint, once the listing is complete
\* the resolver has fetched every page of the open pull requests and returns
\* the first one in listing order whose head SHA is the target commit, and
\* only if there is none the first whose head ref is the target branch.
C6_ResolutionPrecedence ==
    (hint = <<>> /\ SearchCompleted)
        => /\ prs = OpenPRs
           /\ Cardinality(Requests("list")) = (nPRs \div PerPage) + 1
           /\ pr_number = ExpectedNumber

\* C6 witness: the branch match is first on page 1, the SHA match is the
\* single pull request of page 2, and the SHA match was returned
C6_Witness ==
    /\ hint = <<>>
    /\ SearchCompleted
    /\ nPRs = PerPage + 1
    /\ brSet = {1}
    /\ shaSet = {PerPage + 1}
    /\ pr_number = 500 - (PerPage + 1)

\* the number a hint names
HintNumber ==
    CASE hint = <<"0">> -> 0
      [] hint = <<"1", "2">> -> 12
      [] OTHER -> NoPR

\* C8 (amended): fast path. Whenever a PR-number hint that is an integer is
\* supplied, resolution returns that number, whatever it is, and the open
\* pull requests are never listed. A hint that is not an integer is not
\* used: the script lists the open pull requests as if there were no hint,
\* and the workflow variant fails before any request.
C8_FastPath ==
    /\ (hint # <<>> /\ HintNumber # NoPR)
           => /\ Requests("list") = {}
              /\ pushPc # "start" => pr_number = HintNumber
    /\ (hint # <<>> /\ HintNumber = NoPR /\ pushPc # "start")
           => IF flavour = "scripts"
              THEN pushPc = "list" \/ (apiLog # <<>> /\ apiLog[1].req = "list")
              ELSE pushPc = "failed" /\ apiLog = <<>>

\* C8 as stated: whenever a hint is supplied, whatever its value, the open
\* pull requests are not listed.
C8_Original ==
    hint # <<>>
        => /\ Requests("list") = {}
           /\ (pushPc # "start" /\ HintNumber # NoPR) => pr_number = HintNumber

\* C8 witness: the run with hint 12 commented on PR 12 without listing
C8_Witness ==
    /\ hint = <<"1", "2">>
    /\ pushPc = "done"
    /\ pr_number = 12
    /\ Requests("list") = {}
    /\ posted # <<>>
    /\ posted[1].pr = 12

\* C9: resolution miss is a benign skip. With no hint and no open pull
\* request matching the commit or the branch, the run never requests the
\* comparison, never posts, leaves the comments as they are, and once the
\* listing is complete it has ended with exit status 0.
C9_MissIsSkip ==
    (hint = <<>> /\ shaSet = {} /\ brSet = {})
        => /\ Requests("compare") = {}
           /\ Requests("post") = {}
           /\ posted = <<>>
           /\ pushPc \notin {"build", "post", "done"}
           /\ SearchCompleted => (pushPc = "skipped" /\ exitCode = 0)

\* C9 witness: two pages of open pull requests, none matching, run skipped
C9_Witness ==
    /\ hint = <<>>
    /\ shaSet = {}
    /\ brSet = {}
    /\ nPRs = PerPage + 1
    /\ SearchCompleted
    /\ pushPc = "skipped"
    /\ exitCode = 0

\* the compare request was made and did not yield a usable result: the call
\* raised (4xx, retries exhausted, error while reading) or the answer is not
\* a mapping with a list of commit mappings
CompareFailed ==
    \E i \in Requests("compare") :
        apiLog[i].outcome = "raise" \/ apiLog[i].note \in {"nondict", "badentry"}

\* C10: partial data is downgraded. If the compare call fails in any way the
\* run goes on to post the base line alone, and fails only if the post
\* itself fails; when the post returns the run ends with exit status 0 and
\* the comment is the base line. When the before SHA is absent or equal to
\* the current SHA no compare request is made and the body is the base line.
C10_CompareDowngraded ==
    /\ CompareFailed
           => /\ pushBody = <<BaseLine>>
              /\ pushPc \in {"post", "done", "failed"}
              /\ pushPc = "failed"
                     => \E i \in Requests("post") : apiLog[i].outcome = "raise"
              /\ pushPc = "done"
                     => /\ exitCode = 0
                        /\ posted # <<>>
                        /\ \A i \in 1..Len(posted) : posted[i].body = <<BaseLine>>
    /\ (flavour = "scripts" /\ (before = <<>> \/ before = ShaT))
           => /\ Requests("compare") = {}
              /\ pushPc \in {"post", "done"} => pushBody = <<BaseLine>>

\* C10 witness: the compare call raised after a network error, and the run
\* posted the base line and ended with exit status 0
C10_Witness ==
    /\ \E i \in Requests("compare") : apiLog[i].outcome = "raise"
    /\ before = ShaB
    /\ pushPc = "done"
    /\ exitCode = 0
    /\ posted = <<[pr |-> pr_number, body |-> <<BaseLine>>]>>

(***************************************************************************)
(* The summary script: the forge's data of the pull request PR_NUMBER.     *)
(***************************************************************************)
\* None, where the code holds a comment id
NoId ==
    0

\* the pull request as GET /pulls/{PR_NUMBER} returns it at version v
PRData(v) ==
    [title |-> "Add parser", login |-> "dev", head_ref |-> BranchT, base_ref |-> "main",
     additions |-> IF v = 1 THEN 150 ELSE 450, deletions |-> 50,
     changed_files |-> v,
     body |-> <<"f", "i", "x", "e", "s", " ", "#", "1", "2", " ", "a", "n", "d", " ", "r", "e", "l", "a", "t", "e", "s", " ", "t", "o", " ", "#", "7", ",", " ", "s", "e", "e", " ", "#", "1", "2">>]

\* its commits, oldest first: every push adds one
CommitsData(v) ==
    [i \in 1..v |-> Commit(IF i = 1 THEN ShaB ELSE ShaT, <<"step", "details">>)]

\* its files
FilesData(v) ==
    [i \in 1..v |->
        [filename |-> IF i = 1 THEN "parser.py" ELSE "test_parser.py",
         status |-> IF i = 1 THEN "modified" ELSE "added",
         additions |-> IF i = 1 THEN 150 ELSE 300, deletions |-> IF i = 1 THEN 50 ELSE 0]]

\* the id the forge gives the comment at position i of the PR's listing
IdAt(i) ==
    7000 + i

\* the old comments of the PR, written by people
OldComments ==
    [i \in 1..oldCount |-> [id |-> IdAt(i), body |-> <<Line("text", "lgtm", <<>>, <<>>)>>]]

\* GET /issues/{PR_NUMBER}/comments: all comments, oldest first
AllComments ==
    OldComments \o comments

\* a comment of a person, and summary comments left by earlier runs
HumanBody ==
    <<Line("text", "please rebase", <<>>, <<>>)>>

StaleBody(k) ==
    <<MARKER, Line("### PR Summary", "", <<>>, <<>>), Line("**Title:**", "Draft", <<>>, <<k>>)>>

\* the comments a run can find on the PR: the number of old ones and the
\* bodies of those after them
InitialComments ==
    { [old |-> 0, tail |-> <<>>],
      [old |-> 0, tail |-> <<StaleBody(1), HumanBody, StaleBody(2)>>],
      [old |-> PerPage - 1, tail |-> <<StaleBody(1), StaleBody(2), HumanBody>>] }

MarkerCountOf(cs) ==
    Cardinality({i \in 1..Len(cs) : has_marker(cs[i].body)})

MarkerCount ==
    MarkerCountOf(AllComments)

(***************************************************************************)
(* find_existing_summary_comment, create_comment, update_comment           *)
(***************************************************************************)
\* the scan runs oldest first: the first marker comment is returned
find_existing_first(cs) ==
    IF \E i \in 1..Len(cs) : has_marker(cs[i].body)
    THEN cs[CHOOSE i \in 1..Len(cs) :
                has_marker(cs[i].body) /\ \A j \in 1..(i - 1) : ~has_marker(cs[j].body)].id
    ELSE NoId

\* for c in reversed(comments): if MARKER in body: return c["id"]
find_existing_summary_comment(cs) ==
    IF \E i \in 1..Len(cs) : has_marker(cs[i].body)
    THEN cs[CHOOSE i \in 1..Len(cs) :
                has_marker(cs[i].body) /\ \A j \in (i + 1)..Len(cs) : ~has_marker(cs[j].body)].id
    ELSE NoId

\* a create that first looks whether a marker comment exists by now
create_unless_marker(cs, old, body) ==
    IF MarkerCountOf(cs) > 0
    THEN cs
    ELSE Append(cs, [id |-> IdAt(old + Len(cs) + 1), body |-> body])

\* what POST /issues/{PR_NUMBER}/comments does to the comments when applied
create_comment(cs, old, body) ==
    Append(cs, [id |-> IdAt(old + Len(cs) + 1), body |-> body])

\* what PATCH /issues/comments/{comment_id} does to the comments when applied
update_comment(cs, comment_id, body) ==
    [i \in 1..Len(cs) |->
        IF cs[i].id = comment_id THEN [id |-> cs[i].id, body |-> body] ELSE cs[i]]

\* the text a run has formatted from what it fetched
Summary(r) ==
    format_summary(PRData(got[r].pr), CommitsData(got[r].commits), FilesData(got[r].files))

\* the answers of the forge to one attempt of a mutating call
WriteAnswers ==
    { Ans(Http(201, 1), TRUE),
      Ans(Http(500, 0), FALSE),
      Ans(Http(502, 0), TRUE),
      Ans(UrlError, FALSE),
      Ans(Http(404, 0), FALSE),
      Ans(RespError, TRUE),
      Ans(RespError, FALSE) }

(***************************************************************************)
(* Spec: two runs of the summary script on one pull request.               *)
(***************************************************************************)
\* a run that looks for the comment before it has fetched the files
after_read_hasty(step) ==
    CASE step = "get_pr" -> "commits"
      [] step = "commits" -> "comments"
      [] step = "files" -> "comments"
      [] step = "comments" -> "mutate"

\* the order of the statements of format_summary and main: pr, commits,
\* files, then find_existing_summary_comment, then create or update
after_read(step) ==
    CASE step = "get_pr" -> "commits"
      [] step = "commits" -> "files"
      [] step = "files" -> "comments"
      [] step = "comments" -> "mutate"

\* the except clause swallows the exception and the process ends normally
exit_status_swallowed(raised) ==
    0

\* __main__: sys.exit(1) when main raised, else the process ends with 0
exit_status(raised) ==
    IF raised THEN 1 ELSE 0

Active(r) ==
    pc[r] \notin {"idle", "done", "failed"}

Init ==
    /\ CallIdle
    /\ PageIdle
    /\ PushIdle
    /\ FmtIdle
    /\ \E cfg \in InitialComments :
           /\ oldCount = cfg.old
           /\ comments = [i \in 1..Len(cfg.tail) |->
                              [id |-> IdAt(cfg.old + i), body |-> cfg.tail[i]]]
    /\ snapshot = 1
    /\ pc = [r \in Runs |-> "idle"]
    /\ runPage = [r \in Runs |-> 0]
    /\ got = [r \in Runs |-> [pr |-> 0, commits |-> 0, files |-> 0]]
    /\ listed = [r \in Runs |-> <<>>]
    /\ existing = [r \in Runs |-> NoId]
    /\ mAttempt = [r \in Runs |-> 0]
    /\ op = [r \in Runs |-> "none"]
    /\ nApplied = [r \in Runs |-> 0]
    /\ exitOf = [r \in Runs |-> -1]
    /\ lastCall = [r \in Runs |-> NoCall]
    /\ lost = 0
    /\ startMarkers = [r \in Runs |-> -1]
    /\ overlap = FALSE

\* the workflow starts the script: on a push, which changes the pull
\* request, its commits and its files, or on a re-run without a push
start(r, pushed) ==
    /\ pc[r] = "idle"
    /\ pushed => snapshot <= MaxPushes
    /\ snapshot' = IF pushed THEN snapshot + 1 ELSE snapshot
    /\ pc' = [pc EXCEPT ![r] = "get_pr"]
    /\ startMarkers' = [startMarkers EXCEPT ![r] = MarkerCount]
    /\ overlap' = (overlap \/ \E q \in Runs \ {r} : Active(q))
    /\ UNCHANGED <<oldCount, comments, runPage, got, listed, existing,
                   mAttempt, op, nApplied, exitOf, lastCall, lost>>
    /\ UNCHANGED <<callVars, pageVars, pushVars, fmtVars>>

\* the except clause of __main__: print and sys.exit(1)
fail(r) ==
    /\ pc' = [pc EXCEPT ![r] = "failed"]
    /\ exitOf' = [exitOf EXCEPT ![r] = exit_status(TRUE)]

\* format_summary: pr = get_pr()
get_pr(r, script) ==
    /\ pc[r] = "get_pr"
    /\ lastCall' = [lastCall EXCEPT ![r] = Call("get_pr", gh_api("summary", script).outcome, "none")]
    /\ IF gh_api("summary", script).outcome = "raise"
       THEN /\ fail(r)
            /\ UNCHANGED <<got, runPage>>
       ELSE /\ got' = [got EXCEPT ![r].pr = snapshot]
            /\ pc' = [pc EXCEPT ![r] = after_read("get_pr")]
            /\ runPage' = [runPage EXCEPT ![r] = 1]
            /\ UNCHANGED exitOf
    /\ UNCHANGED <<oldCount, comments, snapshot, listed, existing, mAttempt, op,
                   nApplied, lost, startMarkers, overlap>>
    /\ UNCHANGED <<callVars, pageVars, pushVars, fmtVars>>

\* format_summary: commits = get_pr_commits(), one page request of paginate
get_pr_commits(r, script) ==
    /\ pc[r] = "commits"
    /\ lastCall' = [lastCall EXCEPT ![r] = Call("commits", gh_api("summary", script).outcome, "none")]
    /\ IF gh_api("summary", script).outcome = "raise"
       THEN /\ fail(r)
            /\ UNCHANGED <<got, runPage>>
       ELSE /\ got' = [got EXCEPT ![r].commits = snapshot]
            /\ IF paginate_stops(PageOf(CommitsData(snapshot), runPage[r]))
               THEN /\ pc' = [pc EXCEPT ![r] = after_read("commits")]
                    /\ runPage' = [runPage EXCEPT ![r] = 1]
               ELSE /\ runPage' = [runPage EXCEPT ![r] = @ + 1]
                    /\ UNCHANGED pc
            /\ UNCHANGED exitOf
    /\ UNCHANGED <<oldCount, comments, snapshot, listed, existing, mAttempt, op,
                   nApplied, lost, startMarkers, overlap>>
    /\ UNCHANGED <<callVars, pageVars, pushVars, fmtVars>>

\* format_summary: files = get_pr_files(), one page request of paginate;
\* after the last page the text is formatted
get_pr_files(r, script) ==
    /\ pc[r] = "files"
    /\ lastCall' = [lastCall EXCEPT ![r] = Call("files", gh_api("summary", script).outcome, "none")]
    /\ IF gh_api("summary", script).outcome = "raise"
       THEN /\ fail(r)
            /\ UNCHANGED <<got, runPage>>
       ELSE /\ got' = [got EXCEPT ![r].files = snapshot]
            /\ IF paginate_stops(PageOf(FilesData(snapshot), runPage[r]))
               THEN /\ pc' = [pc EXCEPT ![r] = after_read("files")]
                    /\ runPage' = [runPage EXCEPT ![r] = 1]
               ELSE /\ runPage' = [runPage EXCEPT ![r] = @ + 1]
                    /\ UNCHANGED pc
            /\ UNCHANGED exitOf
    /\ UNCHANGED <<oldCount, comments, snapshot, listed, existing, mAttempt, op,
                   nApplied, lost, startMarkers, overlap>>
    /\ UNCHANGED <<callVars, pageVars, pushVars, fmtVars>>

\* main: `if existing_id:`
main_choice(existing_id) ==
    IF existing_id # NoId /\ existing_id # 0 THEN "update" ELSE "create"

\* find_existing_summary_comment: one page request of paginate; after the
\* last page the scan for the marker and the branch of main
list_comments(r, script) ==
    /\ pc[r] = "comments"
    /\ lastCall' = [lastCall EXCEPT ![r] = Call("comments", gh_api("summary", script).outcome, "none")]
    /\ LET data == PageOf(AllComments, runPage[r])
           all == listed[r] \o data
       IN  IF gh_api("summary", script).outcome = "raise"
           THEN /\ fail(r)
                /\ UNCHANGED <<listed, runPage, existing, op, mAttempt>>
           ELSE /\ listed' = [listed EXCEPT ![r] = all]
                /\ IF paginate_stops(data)
                   THEN /\ existing' = [existing EXCEPT
                                           ![r] = find_existing_summary_comment(all)]
                        /\ op' = [op EXCEPT
                                     ![r] = main_choice(find_existing_summary_comment(all))]
                        /\ mAttempt' = [mAttempt EXCEPT ![r] = 1]
                        /\ pc' = [pc EXCEPT ![r] = after_read("comments")]
                        /\ UNCHANGED runPage
                   ELSE /\ runPage' = [runPage EXCEPT ![r] = @ + 1]
                        /\ UNCHANGED <<pc, existing, op, mAttempt>>
                /\ UNCHANGED exitOf
    /\ UNCHANGED <<oldCount, comments, snapshot, got, nApplied, lost, startMarkers,
                   overlap>>
    /\ UNCHANGED <<callVars, pageVars, pushVars, fmtVars>>

\* one attempt of gh_api inside create_comment or update_comment: the forge
\* applies the request or not, and the loop returns, raises or retries
mutate(r, ans) ==
    /\ pc[r] = "mutate"
    /\ (ans.applied /\ ~IsSuccess(ans.resp)) => lost < MaxLost
    /\ lost' = IF ans.applied /\ ~IsSuccess(ans.resp) THEN lost + 1 ELSE lost
    /\ comments' = IF ~ans.applied
                   THEN comments
                   ELSE IF op[r] = "create"
                        THEN create_comment(comments, oldCount, Summary(r))
                        ELSE update_comment(comments, existing[r], Summary(r))
    /\ nApplied' = [nApplied EXCEPT ![r] = IF ans.applied THEN @ + 1 ELSE @]
    /\ LET d == gh_api_decide("summary", mAttempt[r], DefaultMaxRetries, ans.resp)
       IN  /\ pc' = [pc EXCEPT ![r] = CASE d = "return" -> "done"
                                        [] d = "raise" -> "failed"
                                        [] OTHER -> "mutate"]
           /\ exitOf' = [exitOf EXCEPT ![r] = CASE d = "return" -> exit_status(FALSE)
                                                [] d = "raise" -> exit_status(TRUE)
                                                [] OTHER -> @]
           /\ lastCall' = [lastCall EXCEPT ![r] = Call(op[r], d, ResponseClass(ans.resp))]
           /\ mAttempt' = [mAttempt EXCEPT ![r] = IF d = "retry" THEN @ + 1 ELSE @]
    /\ UNCHANGED <<oldCount, snapshot, runPage, got, listed, existing, op,
                   startMarkers, overlap>>
    /\ UNCHANGED <<callVars, pageVars, pushVars, fmtVars>>

Next ==
    \/ \E r \in Runs, pushed \in BOOLEAN : start(r, pushed)
    \/ \E r \in Runs, script \in ReadScripts : get_pr(r, script)
    \/ \E r \in Runs, script \in ReadScripts : get_pr_commits(r, script)
    \/ \E r \in Runs, script \in ReadScripts : get_pr_files(r, script)
    \/ \E r \in Runs, script \in ReadScripts : list_comments(r, script)
    \/ \E r \in Runs, ans \in WriteAnswers : mutate(r, ans)

Spec ==
    Init /\ [][Next]_vars

(***************************************************************************)
(* Properties of the summary runs.                                         *)
(***************************************************************************)
MaxOf(S) ==
    CHOOSE x \in S : \A y \in S : y <= x

\* the positions of the marker comments in a listing
MarkerPositions(cs) ==
    {i \in 1..Len(cs) : has_marker(cs[i].body)}

\* run r has ended, it reported success
Succeeded(r) ==
    pc[r] = "done" /\ exitOf[r] = 0

\* C1: upsert idempotence.  On a pull request without a marker comment, two
\* runs one after the other that formatted the same text leave exactly one
\* marker comment, its body is that text, the first run created and the second
\* updated.  The first run is the one that found no marker comment when it
\* started, the second one started after the first had ended.
C1_UpsertIdempotent ==
    \A f \in Runs, s \in Runs :
        ( /\ f # s
          /\ ~overlap
          /\ startMarkers[f] = 0
          /\ startMarkers[s] >= 1
          /\ Succeeded(f)
          /\ Succeeded(s)
          /\ Summary(f) = Summary(s) )
        => /\ MarkerCount = 1
           /\ \A i \in MarkerPositions(AllComments) : AllComments[i].body = Summary(s)
           /\ op[f] = "create"
           /\ op[s] = "update"

\* the first run's create was applied by the forge and answered with an
\* error, the retry created a second marker comment, and both runs succeeded
C1_LostCreate ==
    /\ ~overlap
    /\ \E f \in Runs, s \in Runs :
           /\ f # s
           /\ startMarkers[f] = 0
           /\ op[f] = "create"
           /\ nApplied[f] = 2
           /\ op[s] = "update"
           /\ Succeeded(f)
           /\ Succeeded(s)
           /\ Summary(f) = Summary(s)
    /\ MarkerCount = 2

\* what a sequential run that found marker comments may do to the comments
\* in one step: nothing, or replace the body of the last marker comment by
\* its text; no comment appears or disappears
C2_Frame(r) ==
    /\ oldCount' = oldCount
    /\ Len(comments') = Len(comments)
    /\ \A i \in 1..Len(comments) :
           \/ comments'[i] = comments[i]
           \/ /\ oldCount + i = MaxOf(MarkerPositions(AllComments))
              /\ comments'[i] = [id |-> comments[i].id, body |-> Summary(r)]

C2_State ==
    \A r \in Runs :
        (~overlap /\ startMarkers[r] >= 1)
        => /\ MarkerCount = startMarkers[r]
           /\ op[r] # "create"
           /\ op[r] = "update"
              => existing[r] = AllComments[MaxOf(MarkerPositions(AllComments))].id

C2_Step ==
    \A r \in Runs :
        (~overlap /\ Active(r) /\ startMarkers[r] >= 1) => C2_Frame(r)

\* C2: a sequential run whose listing holds a marker comment never creates:
\* it replaces the body of the marker comment that is last in the listing,
\* leaves every other comment as it is and deletes none, so the number of
\* marker comments stays what it was when the run started.
C2_UpdateInPlace ==
    [](C2_State) /\ [][C2_Step]_vars

\* a run found two marker comments with a comment of a person in between
\* and replaced the body of the later one only
C2_Witness ==
    \E r \in Runs :
        /\ ~overlap
        /\ startMarkers[r] = 2
        /\ Succeeded(r)
        /\ op[r] = "update"
        /\ Len(comments) = 3
        /\ comments[1].body = StaleBody(1)
        /\ comments[2].body = HumanBody
        /\ comments[3].body = Summary(r)

\* both runs listed the comments, found no marker comment and chose create
BothCreate ==
    \A r \in Runs : op[r] = "create"

C7_State ==
    (BothCreate /\ \A r \in Runs : Succeeded(r)) => MarkerCount >= 2

C7_Step ==
    /\ \A r \in Runs : (op[r] = "create") => (op'[r] = "create")
    /\ \A r \in Runs : (pc[r] = "mutate") => (listed'[r] = listed[r])
    /\ oldCount' = oldCount
    /\ Len(comments') >= Len(comments)
    /\ \A i \in 1..Len(comments) :
           /\ comments'[i].id = comments[i].id
           /\ has_marker(comments[i].body) => has_marker(comments'[i].body)

\* C7: two runs that both listed the comments while there was no marker
\* comment both create one.  A run that chose create keeps that choice and
\* does not list again, no step removes a comment, and when both have
\* succeeded the pull request has two marker comments or more.
C7_CreateRace ==
    [](C7_State) /\ [][C7_Step]_vars

\* the race: both runs were under way together, neither found a marker
\* comment, each create was applied once, and two marker comments stand
C7_Witness ==
    /\ overlap
    /\ BothCreate
    /\ \A r \in Runs : startMarkers[r] = 0 /\ Succeeded(r) /\ nApplied[r] = 1
    /\ lost = 0
    /\ MarkerCount = 2

(***************************************************************************)
(* SpecRuns: a run of the push-comment script, or runs of the summary      *)
(* script.                                                                 *)
(***************************************************************************)
InitRuns ==
    Init \/ InitPush

NextRuns ==
    Next \/ NextPush

SpecRuns ==
    InitRuns /\ [][NextRuns]_vars

\* a gh_api call of the push-comment run raised, other than the compare
FatalCalls ==
    {i \in 1..Len(apiLog) : apiLog[i].outcome = "raise" /\ apiLog[i].req # "compare"}

C11_PushPropagates ==
    /\ \A i \in FatalCalls : i = Len(apiLog) /\ pushPc = "failed" /\ exitCode = 1
    /\ exitCode = 0
       => \/ pushPc = "skipped" /\ Requests("post") = {}
          \/ /\ pushPc = "done"
             /\ apiLog[Len(apiLog)].req = "post"
             /\ apiLog[Len(apiLog)].outcome = "return"

C11_SummaryPropagates ==
    \A r \in Runs :
        /\ lastCall[r].outcome = "raise" => (pc[r] = "failed" /\ exitOf[r] = 1)
        /\ pc[r] = "failed" => exitOf[r] = 1
        /\ exitOf[r] = 0
           => /\ pc[r] = "done"
              /\ lastCall[r].req \in {"create", "update"}
              /\ lastCall[r].outcome = "return"
              /\ lastCall[r].cls = "ok"

\* C11: a gh_api call that raises - while listing the open pull requests,
\* fetching the pull request, its commits, its files or its comments, or
\* while creating or updating the comment - ends the run with status 1, the
\* compare call excepted; a run that ends with status 0 either skipped
\* without a mutating request or its mutating call returned.
C11_FailurePropagation ==
    C11_PushPropagates /\ C11_SummaryPropagates

\* a summary run whose listing of the comments raised, and one whose update
\* was answered 404, both ended with status 1
C11_Witness ==
    \E r \in Runs, q \in Runs :
        /\ lastCall[r] = Call("comments", "raise", "none")
        /\ exitOf[r] = 1
        /\ lastCall[q] = Call("update", "raise", "4xx")
        /\ exitOf[q] = 1

(***************************************************************************)
(* Timeouts of urlopen(req, timeout=30) (SpecCall).                        *)
(***************************************************************************)
TimeoutPhases ==
    {"send", "read"}

\* what urlopen raises when the 30 seconds pass: while connecting or sending
\* the request the OSError is wrapped in a URLError; while waiting for or
\* reading the response the TimeoutError leaves urlopen as it is, and
\* json.load(resp) raises it as it is too
Timeout(phase) ==
    IF phase = "send" THEN UrlError ELSE RespError

\* C12: a timeout on attempt k < N is retried like any network error,
\* whichever phase of the call it strikes in.
C12_TimeoutRetried ==
    \A k \in 1..Len(seen) :
        ((\E phase \in TimeoutPhases : seen[k] = Timeout(phase)) /\ k < max_retries)
            => \/ k < Len(seen)
               \/ callState = "running" /\ attempt = k + 1

\* the first of three attempts timed out while the response was read, and
\* the call raised without a second attempt
C12_ReadTimeout ==
    /\ max_retries = 3
    /\ seen = <<Timeout("read")>>
    /\ callState = "raised"
    /\ sleeps = <<>>

(***************************************************************************)
(* SpecFormat: one call of format_summary on data already fetched.         *)
(***************************************************************************)
\* the longest commit list and file list the call is given
MaxCommits ==
    12

MaxFiles ==
    15

\* the PR bodies: the one of the specification's example, the same without
\* the comma, several references over two lines, tokens that only look like
\* references, references that differ by a leading zero, and no body
ExampleBody ==
    <<"f", "i", "x", "e", "s", " ", "#", "1", "2", " ", "a", "n", "d", " ",
      "r", "e", "l", "a", "t", "e", "s", " ", "t", "o", " ", "#", "7", ",",
      " ", "s", "e", "e", " ", "#", "1", "2">>

PlainBody ==
    <<"f", "i", "x", "e", "s", " ", "#", "1", "2", " ", "a", "n", "d", " ",
      "r", "e", "l", "a", "t", "e", "s", " ", "t", "o", " ", "#", "7", " ",
      "s", "e", "e", " ", "#", "1", "2">>

TwoLineBody ==
    <<"#", "1", "2", " ", "#", "7", "\n", "#", "1", "0", "0", " ", "#", "1",
      "2">>

NoRefBody ==
    <<"s", "e", "e", " ", "#", "x", "1", " ", "#", " ", "1", "#", "2", " ",
      "(", "#", "3", ")">>

ZeroBody ==
    <<"\t", "#", "5", "\n", "\n", "#", "0", "5", " ">>

FmtBodies ==
    {<<>>, ExampleBody, PlainBody, TwoLineBody, NoRefBody, ZeroBody}

\* additions of the pull request, deletions being 50
FmtAdditions ==
    {0, 150, 151, 450, 451, 950, 951, 1950}

DigitChar(d) ==
    CHOOSE ch \in Digits : DigitVal(ch) = d

\* the i-th commit of the pull request; every fifth has no message
FmtCommit(i) ==
    Commit(<<DigitChar(i \div 10), DigitChar(i % 10), "a", "b", "c", "d", "e", "f">>,
           IF i % 5 = 3 THEN <<>> ELSE <<"step", "details">>)

FileNames ==
    <<"parser.py", "lexer.py", "ast.py", "eval.py",
      "cli.py", "io.py", "util.py", "types.py",
      "errors.py", "config.py", "test_parser.py", "test_lexer.py",
      "test_eval.py", "README.md", "setup.py", "Makefile">>

\* the i-th file of the pull request: many files change equally much
FmtFile(i) ==
    [filename |-> FileNames[i],
     status |-> IF i % 2 = 0 THEN "added" ELSE "modified",
     additions |-> (i % 4) * 10,
     deletions |-> 5]

InitFormat ==
    /\ CallIdle
    /\ PageIdle
    /\ PushIdle
    /\ SumIdle
    /\ \E a \in FmtAdditions, b \in FmtBodies, nf \in {0, 1, 10, 15, MaxFiles} :
           /\ fmtPr = [title |-> "Add parser", login |-> "dev", head_ref |-> BranchT,
                       base_ref |-> "main", additions |-> a, deletions |-> 50,
                       changed_files |-> nf, body |-> b]
           /\ fmtFiles = [i \in 1..nf |-> FmtFile(i)]
    /\ \E nc \in {0, 1, 10, 11, 12, MaxCommits} : fmtCommits = [i \in 1..nc |-> FmtCommit(i)]
    /\ fmtPc = "input"
    /\ fmtOut = <<>>

\* summary = format_summary()
format_call ==
    /\ fmtPc = "input"
    /\ fmtOut' = format_summary(fmtPr, fmtCommits, fmtFiles)
    /\ fmtPc' = "done"
    /\ UNCHANGED <<fmtPr, fmtCommits, fmtFiles>>
    /\ UNCHANGED <<callVars, pageVars, pushVars, sumVars>>

NextFormat ==
    format_call

SpecFormat ==
    InitFormat /\ [][NextFormat]_vars

(***************************************************************************)
(* Properties of format_summary (SpecFormat).                              *)
(***************************************************************************)
\* the positions of the lines of the summary with the given tag
LinesTagged(tag) ==
    {i \in 1..Len(fmtOut) : fmtOut[i].tag = tag}

\* the tokens of a text, as the pairs of their first and last position:
\* the maximal stretches without whitespace
TokenSpans(text) ==
    {sp \in (1..Len(text)) \X (1..Len(text)) :
        /\ sp[1] <= sp[2]
        /\ \A k \in sp[1]..sp[2] : ~IsSpace(text[k])
        /\ sp[1] = 1 \/ IsSpace(text[sp[1] - 1])
        /\ sp[2] = Len(text) \/ IsSpace(text[sp[2] + 1])}

\* the tokens that are "#" followed by digits only, and by one at least
IssueRefs(text) ==
    {SubSeq(text, sp[1], sp[2]) : sp \in
        {q \in TokenSpans(text) :
            /\ q[2] > q[1]
            /\ text[q[1]] = "#"
            /\ \A k \in (q[1] + 1)..q[2] : text[k] \in Digits}}

\* the code points of the characters of a reference
CharCode(ch) ==
    IF ch = "#" THEN 35 ELSE 48 + DigitVal(ch)

\* t sorts before u as a string
LexLess(t, u) ==
    \E k \in 1..(Len(t) + 1) :
        /\ \A m \in 1..(k - 1) : m <= Len(u) /\ t[m] = u[m]
        /\ \/ k = Len(t) + 1 /\ k <= Len(u)
           \/ k <= Len(t) /\ k <= Len(u) /\ CharCode(t[k]) < CharCode(u[k])

\* the text after "- " in the linked-issues section (<<>>: no section)
LinkedText ==
    IF LinesTagged("linked") = {}
    THEN <<>>
    ELSE fmtOut[CHOOSE i \in LinesTagged("linked") : TRUE].b

\* the text holds the references of the body, each once, in string order,
\* one space between two of them
RendersInOrder(text, refs) ==
    /\ {SubSeq(text, sp[1], sp[2]) : sp \in TokenSpans(text)} = refs
    /\ Cardinality(TokenSpans(text)) = Cardinality(refs)
    /\ \A sp \in TokenSpans(text), sq \in TokenSpans(text) :
           sp[1] < sq[1] => LexLess(SubSeq(text, sp[1], sp[2]), SubSeq(text, sq[1], sq[2]))
    /\ \A k \in 1..Len(text) :
           text[k] = " " => (1 < k /\ k < Len(text) /\ text[k + 1] # " ")

\* C13: the linked-issues section lists the whitespace-separated tokens of
\* the body that are "#" followed by digits only, each once, in string
\* order, and is left out when there is none.  For the body
\* `fixes #12 and relates to #7, see #12` it lists #12 only, the token `#7,`
\* ending in a comma; without the comma it lists #12 then #7.
C13_LinkedIssues ==
    fmtPc = "done"
    => /\ Cardinality(LinesTagged("linked")) = Cardinality(LinesTagged("#### Linked issues"))
       /\ IF IssueRefs(fmtPr.body) = {}
          THEN LinesTagged("linked") = {}
          ELSE /\ Cardinality(LinesTagged("linked")) = 1
               /\ RendersInOrder(LinkedText, IssueRefs(fmtPr.body))
       /\ fmtPr.body = ExampleBody => LinkedText = <<"#", "1", "2">>
       /\ fmtPr.body = PlainBody => LinkedText = <<"#", "1", "2", " ", "#", "7">>

\* C13 as stated: the body of the example yields #12 then #7
C13_Original ==
    (fmtPc = "done" /\ fmtPr.body = ExampleBody)
    => LinkedText = <<"#", "1", "2", " ", "#", "7">>

\* the summary of the example body has been formatted: it lists #12 alone
C13_Witness ==
    /\ fmtPc = "done"
    /\ fmtPr.body = ExampleBody
    /\ LinkedText = <<"#", "1", "2">>

\* the label in the Scope line of the summary, and the total it stands for
ScopeLabel ==
    fmtOut[CHOOSE i \in LinesTagged("**Scope:**") : TRUE].a

TotalDelta ==
    fmtPr.additions + fmtPr.deletions

\* C14: the label is small iff t <= 200, medium iff 200 < t <= 500, large
\* iff 500 < t <= 1000 and huge iff t > 1000, for t = additions + deletions;
\* the summary has one Scope line and so one label.
C14_SizeLabel ==
    fmtPc = "done"
    => /\ Cardinality(LinesTagged("**Scope:**")) = 1
       /\ ScopeLabel \in {"small", "medium", "large", "huge"}
       /\ ScopeLabel = "small" <=> TotalDelta <= 200
       /\ ScopeLabel = "medium" <=> (200 < TotalDelta /\ TotalDelta <= 500)
       /\ ScopeLabel = "large" <=> (500 < TotalDelta /\ TotalDelta <= 1000)
       /\ ScopeLabel = "huge" <=> TotalDelta > 1000

\* a pull request of exactly 1000 changed lines has been labelled large
C14_Witness ==
    /\ fmtPc = "done"
    /\ TotalDelta = 1000
    /\ ScopeLabel = "large"

\* the place of file i of the fetched list in the ranking: behind the files
\* with more changed lines and behind the earlier files with as many
Rank(i) ==
    1 + Cardinality({j \in 1..Len(fmtFiles) :
                        \/ fmtFiles[j].additions + fmtFiles[j].deletions
                               > fmtFiles[i].additions + fmtFiles[i].deletions
                        \/ /\ j < i
                           /\ fmtFiles[j].additions + fmtFiles[j].deletions
                                  = fmtFiles[i].additions + fmtFiles[i].deletions})

\* the p-th entry of the most-changed-files section
FileLineAt(p) ==
    fmtOut[(CHOOSE i \in LinesTagged("#### Most-changed files") : TRUE) + p]

ShownFiles ==
    IF Len(fmtFiles) < 10 THEN Len(fmtFiles) ELSE 10

\* C15: the section lists the first 10 files, or all when there are fewer,
\* of the fetched list ordered by additions + deletions descending, files
\* with equal counts in their listing order, also at the cut; with 15 files
\* 10 are listed, with none the section is left out.
C15_TopFiles ==
    fmtPc = "done"
    => /\ Cardinality(LinesTagged("file")) = ShownFiles
       /\ Cardinality(LinesTagged("#### Most-changed files"))
              = (IF Len(fmtFiles) = 0 THEN 0 ELSE 1)
       /\ Len(fmtFiles) = 15 => Cardinality(LinesTagged("file")) = 10
       /\ \A i \in 1..Len(fmtFiles) :
              Rank(i) <= 10
                  => FileLineAt(Rank(i)) =
                         Line("file", fmtFiles[i].filename, <<fmtFiles[i].status>>,
                              <<fmtFiles[i].additions, fmtFiles[i].deletions>>)

\* 15 files of which four change 15 lines each: the first two of them take
\* the places 9 and 10, the other two are cut
C15_Witness ==
    /\ fmtPc = "done"
    /\ Len(fmtFiles) = 15
    /\ Cardinality(LinesTagged("file")) = 10
    /\ FileLineAt(9).a = FileNames[1]
    /\ FileLineAt(10).a = FileNames[5]
    /\ \A i \in {1, 5, 9, 13} : fmtFiles[i].additions + fmtFiles[i].deletions = 15

\* the p-th entry of the recent-commits section
CommitLineAt(p) ==
    fmtOut[(CHOOSE i \in LinesTagged("#### Recent commits") : TRUE) + p]

ShownCommits ==
    IF Len(fmtCommits) < 10 THEN Len(fmtCommits) ELSE 10

\* the entry of commit k of the fetched list: seven characters of its sha
\* and the first line of its message
EntryOf(k) ==
    Line("commit",
         IF fmtCommits[k].message = <<>> THEN "(no message)" ELSE fmtCommits[k].message[1],
         SubSeq(fmtCommits[k].sha, 1, 7), <<>>)

\* C16: for n commits in chronological order the section has min(n, 10)
\* entries, the p-th being commit n + 1 - p; with 12 commits these are the
\* commits 12, 11, ..., 3; with none the section is left out.
C16_RecentCommits ==
    fmtPc = "done"
    => /\ Cardinality(LinesTagged("commit")) = ShownCommits
       /\ Cardinality(LinesTagged("#### Recent commits"))
              = (IF Len(fmtCommits) = 0 THEN 0 ELSE 1)
       /\ \A p \in 1..ShownCommits : CommitLineAt(p) = EntryOf(Len(fmtCommits) + 1 - p)
       /\ Len(fmtCommits) = 12
          => /\ CommitLineAt(1) = EntryOf(12)
             /\ CommitLineAt(10) = EntryOf(3)
             /\ Cardinality(LinesTagged("commit")) = 10

\* 12 commits: the section starts with commit 12 and ends with commit 3
C16_Witness ==
    /\ fmtPc = "done"
    /\ Len(fmtCommits) = 12
    /\ CommitLineAt(1).b = <<"1", "2", "a", "b", "c", "d", "e">>
    /\ CommitLineAt(10).b = <<"0", "3", "a", "b", "c", "d", "e">>
    /\ CommitLineAt(10).a = "(no message)"

(***************************************************************************)
(* SpecLive: paginate over a collection that changes while it is           *)
(* traversed.  The forge inserts a new item at the head of the listing or  *)
(* removes the first one, between two page requests.                       *)
(***************************************************************************)
\* how often the collection changes during one traversal
MaxChanges ==
    2

\* the sizes of the collection when the traversal starts
LiveSizes ==
    {PerPage, PerPage + 1, 2 * PerPage, 2 * PerPage + 50}

InitLive ==
    /\ CallIdle
    /\ PushIdle
    /\ SumIdle
    /\ FmtIdle
    /\ \E n \in LiveSizes : coll = [i \in 1..n |-> i]
    /\ page = 1
    /\ pgState = "running"
    /\ yielded = <<>>
    /\ fetched = <<>>
    /\ changes = 0

\* an item is created and listed first; the items that appear during the
\* traversal have negative numbers
coll_insert ==
    /\ pgState = "running"
    /\ fetched # <<>>
    /\ changes < MaxChanges
    /\ coll' = <<-(changes + 1)>> \o coll
    /\ changes' = changes + 1
    /\ UNCHANGED <<page, pgState, yielded, fetched>>
    /\ UNCHANGED <<callVars, pushVars, sumVars, fmtVars>>

\* the item listed first is removed
coll_remove ==
    /\ pgState = "running"
    /\ fetched # <<>>
    /\ changes < MaxChanges
    /\ coll # <<>>
    /\ coll' = Tail(coll)
    /\ changes' = changes + 1
    /\ UNCHANGED <<page, pgState, yielded, fetched>>
    /\ UNCHANGED <<callVars, pushVars, sumVars, fmtVars>>

NextLive ==
    \/ \E script \in ReadScripts : paginate_step(script)
    \/ coll_insert
    \/ coll_remove

SpecLive ==
    InitLive /\ [][NextLive]_vars

(***************************************************************************)
(* Properties of paginate over a changing collection (SpecLive).           *)
(***************************************************************************)
\* an item has been yielded twice
YieldedTwice ==
    \E i \in 1..Len(yielded), j \in 1..Len(yielded) : i < j /\ yielded[i] = yielded[j]

\* an item that was in the collection from the start and still is has not
\* been yielded
MissedItem ==
    \E k \in 1..Len(coll) :
        /\ coll[k] > 0
        /\ \A i \in 1..Len(yielded) : yielded[i] # coll[k]

\* the latest page request, when it was answered
LastLen ==
    fetched[Len(fetched)].len

C17_State ==
    /\ PagesInOrder
    /\ EarlierPagesFull
    /\ pgState = "done" => (fetched # <<>> /\ 0 <= LastLen /\ LastLen < PerPage)
    /\ pgState = "running" => Len(yielded) = PerPage * Len(fetched)

\* a page request that is answered yields the page as the forge holds it
\* then, whatever was yielded before, and ends the traversal iff the page
\* is short or empty
C17_Step ==
    (fetched' # fetched /\ fetched'[Len(fetched')].len >= 0)
    => /\ yielded' = yielded \o PageOf(coll, page)
       /\ pgState' = "done" <=> Len(PageOf(coll, page)) < PerPage

\* C17: the paginator yields every page as it is answered, without looking
\* at what it yielded before, and stops at the first short or empty page;
\* over a collection that changes between page requests its output can hold
\* an item twice and lack an item that was there throughout.
C17_NoRevalidation ==
    [](C17_State) /\ [][C17_Step]_vars

\* a traversal has ended after the first item was removed and a new one
\* inserted ahead of the offset: one item was yielded twice, another one
\* that was there all along was not yielded
C17_Witness ==
    /\ pgState = "done"
    /\ changes = 2
    /\ YieldedTwice
    /\ MissedItem

(***************************************************************************)
(* The order of the requests of a summary run (Spec).                      *)
(***************************************************************************)
\* the place of a request in the order the claim gives
Ord(req) ==
    CASE req = "none" -> 0
      [] req = "get_pr" -> 1
      [] req = "commits" -> 2
      [] req = "files" -> 3
      [] req = "comments" -> 4
      [] req \in {"create", "update"} -> 5

C18_State ==
    \A r \in Runs :
        /\ nApplied[r] > 0
           => /\ lastCall[r].req = op[r]
              /\ op[r] \in {"create", "update"}
              /\ got[r].pr > 0 /\ got[r].commits > 0 /\ got[r].files > 0
        /\ (lastCall[r].outcome = "raise" /\ Ord(lastCall[r].req) <= 4)
           => (nApplied[r] = 0 /\ op[r] = "none")

C18_Step ==
    /\ \A r \in Runs :
           lastCall'[r] # lastCall[r]
           => /\ Ord(lastCall'[r].req) \in {Ord(lastCall[r].req), Ord(lastCall[r].req) + 1}
              /\ lastCall[r].outcome \in {"none", "return", "retry"}
              /\ lastCall[r].outcome = "retry" => lastCall'[r].req = lastCall[r].req
              /\ (lastCall[r].req # "none" /\ Ord(lastCall'[r].req) > Ord(lastCall[r].req))
                 => /\ lastCall[r].outcome = "return"
                    /\ Ord(lastCall[r].req) \in {2, 3}
                       => paginate_stops(PageOf(IF lastCall[r].req = "commits"
                                                THEN CommitsData(got[r].commits)
                                                ELSE FilesData(got[r].files), runPage[r]))
              /\ Ord(lastCall'[r].req) = 5
                 => /\ lastCall'[r].req = op[r]
                    /\ Len(listed[r]) < PerPage * runPage[r]
                    /\ Len(listed[r]) >= PerPage * (runPage[r] - 1)
    /\ comments' # comments
       => \E r \in Runs :
              /\ pc[r] = "mutate"
              /\ lastCall'[r].req = op[r]
              /\ nApplied'[r] = nApplied[r] + 1

\* C18: a summary run requests the pull request, then the pages of its
\* commits, then those of its files, then those of its comments, each after
\* the one before has returned, and then makes one mutating call, a create
\* or an update; the comments change only by a mutating request, so a run
\* whose read raised has changed none.
C18_RequestOrder ==
    [](C18_State) /\ [][C18_Step]_vars

\* one run ended when the second page of its comment listing raised, having
\* changed nothing, and the other went through all reads and updated
C18_Witness ==
    \E r \in Runs, q \in Runs :
        /\ lastCall[r] = Call("comments", "raise", "none")
        /\ runPage[r] = 2
        /\ nApplied[r] = 0
        /\ lastCall[q] = Call("update", "return", "ok")
        /\ nApplied[q] = 1
        /\ Len(listed[q]) > PerPage

(***************************************************************************)
(* The retries of the mutating call of a summary run (Spec).               *)
(***************************************************************************)
Mutating(r) ==
    lastCall[r].req \in {"create", "update"}

C19_State ==
    \A r \in Runs :
        Mutating(r)
        => /\ lastCall[r].cls \in {"5xx", "net"}
              => \/ lastCall[r].outcome = "retry" /\ pc[r] = "mutate"
                 \/ lastCall[r].outcome = "raise" /\ mAttempt[r] = DefaultMaxRetries
           /\ lastCall[r].outcome = "retry"
              => (lastCall[r].cls \in {"5xx", "net"} /\ mAttempt[r] <= DefaultMaxRetries)

\* the attempts of the mutating call follow one another with nothing in
\* between: the listing, the choice and the text stay what they were, and
\* what the forge applies is the same request each time
C19_Step ==
    \A r \in Runs :
        pc[r] = "mutate"
        => /\ listed'[r] = listed[r]
           /\ existing'[r] = existing[r]
           /\ op'[r] = op[r]
           /\ got'[r] = got[r]
           /\ runPage'[r] = runPage[r]
           /\ lastCall'[r].req \in {lastCall[r].req, op[r]}
           /\ nApplied'[r] = nApplied[r] + 1
              => comments' = IF op[r] = "create"
                             THEN Append(comments, [id |-> IdAt(oldCount + Len(comments) + 1),
                                                    body |-> Summary(r)])
                             ELSE [i \in 1..Len(comments) |->
                                      IF comments[i].id = existing[r]
                                      THEN [id |-> existing[r], body |-> Summary(r)]
                                      ELSE comments[i]]

\* C19: an attempt of create or update that ends in a 5xx response or a
\* network error is followed by another attempt of the same request, up to
\* the third, and the comments are not listed again in between; a create
\* that the forge applied and answered with an error is therefore sent, and
\* applied, again.
C19_MutationRetried ==
    [](C19_State) /\ [][C19_Step]_vars

\* one run alone, on a pull request without a marker comment, has left two:
\* its first POST was applied and answered with an error
C19_Witness ==
    \E r \in Runs :
        /\ \A q \in Runs \ {r} : pc[q] = "idle"
        /\ startMarkers[r] = 0
        /\ lastCall[r] = Call("create", "return", "ok")
        /\ nApplied[r] = 2
        /\ lost = 1
        /\ MarkerCount = 2

(***************************************************************************)
(* The comments of a push-comment run (SpecPush).                          *)
(***************************************************************************)
\* C20: a push-comment run that ended with success made one POST call,
\* made no request other than listing the open pull requests, the compare
\* and that POST, posted a body without the marker, and added exactly one
\* comment to the pull request - so that k such runs add k comments.
C20_OneCommentPerRun ==
    (pushPc = "done" /\ exitCode = 0)
    => /\ Cardinality(Requests("post")) = 1
       /\ \A i \in 1..Len(apiLog) : apiLog[i].req \in {"list", "compare", "post"}
       /\ ~has_marker(post_body)
       /\ Len(posted) = 1

\* one successful run has added two comments: the forge applied its POST,
\* answered 502, and applied the retry
C20_LostPost ==
    /\ pushPc = "done"
    /\ exitCode = 0
    /\ flavour = "scripts"
    /\ Cardinality(Requests("post")) = 1
    /\ Len(posted) = 2
    /\ posted[1] = posted[2]

====
